---- MODULE Spec2Model ----
(***************************************************************************)
(* Model of resize_boxes.py: BoxResizer scales every bounding box of every *)
(* XML annotation file of a directory around its centre and clamps it to   *)
(* the image extent declared in the file.                                  *)
(*                                                                         *)
(* Text (element text, file names, paths) is a sequence of one-character   *)
(* strings; an element without text (lxml's None) is the empty sequence.   *)
(* The scale factor is a float with an exact binary representation,        *)
(* modelled as the rational num/den with den a power of two, so that the   *)
(* float products of get_scaled_box are exact and int() is a truncation.   *)
(***************************************************************************)
EXTENDS Integers, Sequences, FiniteSets, TLC

VARIABLES
    pc,                 \* position of scale_XML_files / of the scaling harness
    dir_contents,       \* entries of the input directory: [name, kind]
    fs,                 \* regular files: path -> content
    input_directory,    \* self.input_directory
    output_directory,   \* self.output_directory
    out_dir_exists,     \* whether the output directory exists and is writable
    scale_factor,       \* self.scale_factor
    width,              \* self.width
    height,             \* self.height
    xml_files,          \* self.xml_files
    file_idx,           \* position of the loop over self.xml_files (line 133)
    tree,               \* XML_file_tree of the file in progress
    box_objects,        \* box_XML_objects: positions of the object elements
    obj_idx,            \* position of the loop over box_XML_objects (line 147)
    written,            \* paths handed to XML_file_tree.write, in order
    failed_at,          \* file_idx at which an exception ended the batch, or 0
    call_args,          \* the boxes get_scaled_box was called with, in order
    box                 \* the box in hand: the input, then each call's result

vars == <<pc, dir_contents, fs, input_directory, output_directory,
          out_dir_exists, scale_factor, width, height, xml_files, file_idx,
          tree, box_objects, obj_idx, written, failed_at, call_args, box>>

(***************************************************************************)
(* Bounds of the model.                                                    *)
(***************************************************************************)
NegCoord == 1
MaxCoord == 4
MaxCoordY == 2
MaxExtent == 3
MaxCalls == 2
MaxEntries == 4

(***************************************************************************)
(* Floats with an exact representation, and int() of a float.              *)
(***************************************************************************)
Rat(n, d) == [num |-> n, den |-> d]

\* float * float
FloatMul(a, b) == Rat(a.num * b.num, a.den * b.den)

\* a variant that rounds down instead of toward zero
int_of_floatFloor(x) == x.num \div x.den

\* int(x) for a float x: the integer part, rounded toward zero
int_of_float(x) ==
    IF x.num >= 0 THEN x.num \div x.den ELSE -((-x.num) \div x.den)

min(a, b) == IF a <= b THEN a ELSE b

\* a variant of max with the comparison the wrong way round
maxReversed(a, b) == IF a <= b THEN a ELSE b

max(a, b) == IF a >= b THEN a ELSE b

(***************************************************************************)
(* BoundingBox and BoxResizer.get_scaled_box                               *)
(***************************************************************************)
BoundingBox(xmin, xmax, ymin, ymax) ==
    [x_min |-> xmin, x_max |-> xmax, y_min |-> ymin, y_max |-> ymax]

\* the dataclass defaults
DefaultBox == BoundingBox(0, 0, 0, 0)

\* a variant that adds the factor to the half length instead of multiplying
scaled_deltaAdd(length, factor) ==
    int_of_float(Rat(length.num * factor.den + factor.num * length.den,
                     length.den * factor.den))

\* int(x_length*self.scale_factor), the delta of lines 59-62
scaled_delta(length, factor) == int_of_float(FloatMul(length, factor))

\* a variant that reorders an inverted result
get_scaled_boxSwap(b, w, h, factor) ==
    LET x_length == Rat(b.x_max - b.x_min, 2)
        y_length == Rat(b.y_max - b.y_min, 2)
        b1 == [b  EXCEPT !.x_min = @ - scaled_delta(x_length, factor)]
        b2 == [b1 EXCEPT !.x_max = @ + scaled_delta(x_length, factor)]
        b3 == [b2 EXCEPT !.y_min = @ - scaled_delta(y_length, factor)]
        b4 == [b3 EXCEPT !.y_max = @ + scaled_delta(y_length, factor)]
        b5 == [b4 EXCEPT !.x_max = min(w, @)]
        b6 == [b5 EXCEPT !.x_min = max(0, @)]
        b7 == [b6 EXCEPT !.y_max = min(h, @)]
        b8 == [b7 EXCEPT !.y_min = max(0, @)]
    IN  BoundingBox(min(b8.x_min, b8.x_max), max(b8.x_min, b8.x_max),
                    min(b8.y_min, b8.y_max), max(b8.y_min, b8.y_max))

get_scaled_box(b, w, h, factor) ==
    LET x_length == Rat(b.x_max - b.x_min, 2)
        y_length == Rat(b.y_max - b.y_min, 2)
        b1 == [b  EXCEPT !.x_min = @ - scaled_delta(x_length, factor)]
        b2 == [b1 EXCEPT !.x_max = @ + scaled_delta(x_length, factor)]
        b3 == [b2 EXCEPT !.y_min = @ - scaled_delta(y_length, factor)]
        b4 == [b3 EXCEPT !.y_max = @ + scaled_delta(y_length, factor)]
        b5 == [b4 EXCEPT !.x_max = min(w, @)]
        b6 == [b5 EXCEPT !.x_min = max(0, @)]
        b7 == [b6 EXCEPT !.y_max = min(h, @)]
        b8 == [b7 EXCEPT !.y_min = max(0, @)]
    IN  b8

(***************************************************************************)
(* Text: str methods, int(text), str(int), os.path                         *)
(***************************************************************************)
NoText == << >>

Digits == <<"0", "1", "2", "3", "4", "5", "6", "7", "8", "9">>

IsDigit(c) == \E i \in 1..10 : Digits[i] = c

DigitVal(c) == (CHOOSE i \in 1..10 : Digits[i] = c) - 1

IsSpace(c) == c \in {" ", "\n", "\t", "\r"}

RECURSIVE LStrip(_)
LStrip(s) ==
    IF s # << >> /\ IsSpace(Head(s)) THEN LStrip(Tail(s)) ELSE s

RECURSIVE RStrip(_)
RStrip(s) ==
    IF s # << >> /\ IsSpace(s[Len(s)]) THEN RStrip(SubSeq(s, 1, Len(s) - 1)) ELSE s

\* value of a non-empty run of decimal digits
RECURSIVE DigitsValue(_)
DigitsValue(s) ==
    IF Len(s) = 1 THEN DigitVal(s[1])
    ELSE 10 * DigitsValue(SubSeq(s, 1, Len(s) - 1)) + DigitVal(s[Len(s)])

\* int(text): surrounding whitespace is dropped, then an optional sign and
\* one or more decimal digits; anything else (None included) raises
int_of_text(text) ==
    LET t == RStrip(LStrip(text))
        signed == t # << >> /\ Head(t) \in {"+", "-"}
        body == IF signed THEN Tail(t) ELSE t
        good == body # << >> /\ \A i \in 1..Len(body) : IsDigit(body[i])
    IN  IF ~good THEN [ok |-> FALSE, val |-> 0]
        ELSE [ok |-> TRUE,
              val |-> IF signed /\ Head(t) = "-" THEN -DigitsValue(body)
                      ELSE DigitsValue(body)]

RECURSIVE NatToText(_)
NatToText(n) ==
    IF n < 10 THEN <<Digits[n + 1]>>
    ELSE NatToText(n \div 10) \o <<Digits[(n % 10) + 1]>>

\* str(n) for an int n
str_of_int(n) == IF n < 0 THEN <<"-">> \o NatToText(-n) ELSE NatToText(n)

endswithFold(s, suffix) ==
    /\ Len(s) >= Len(suffix)
    /\ \A i \in 1..Len(suffix) :
         LET c == s[Len(s) - Len(suffix) + i]
         IN  c = suffix[i] \/ (suffix[i] = "x" /\ c = "X")
                           \/ (suffix[i] = "m" /\ c = "M")
                           \/ (suffix[i] = "l" /\ c = "L")

\* str.endswith
endswith(s, suffix) ==
    /\ Len(s) >= Len(suffix)
    /\ SubSeq(s, Len(s) - Len(suffix) + 1, Len(s)) = suffix

\* os.path.join(a, b) (posix)
join(a, b) ==
    IF b # << >> /\ Head(b) = "/" THEN b
    ELSE IF a = << >> \/ a[Len(a)] = "/" THEN a \o b
    ELSE a \o <<"/">> \o b

\* os.path.basename(p): what follows the last "/"
basename(p) ==
    LET slashes == {i \in 1..Len(p) : p[i] = "/"}
        last == IF slashes = {} THEN 0
                ELSE CHOOSE i \in slashes : \A j \in slashes : j <= i
    IN  SubSeq(p, last + 1, Len(p))

(***************************************************************************)
(* lxml elements: [tag, text, children]; find and findall look at the      *)
(* direct children. A position 0 stands for None.                          *)
(***************************************************************************)
Elem(tag, text, children) == [tag |-> tag, text |-> text, children |-> children]

\* the tag constants of __init__
XML_object_tag == "object"
bounding_box_tag == "bndbox"
base_image_size_tag == "size"
base_image_width_tag == "width"
base_image_height_tag == "height"
x_min_tag == "xmin"
x_max_tag == "xmax"
y_min_tag == "ymin"
y_max_tag == "ymax"

\* positions of the children of e with the tag, in document order
findall(e, tag) ==
    LET idx == {i \in 1..Len(e.children) : e.children[i].tag = tag}
        RECURSIVE Ordered(_, _)
        Ordered(i, acc) ==
            IF i > Len(e.children) THEN acc
            ELSE Ordered(i + 1, IF i \in idx THEN Append(acc, i) ELSE acc)
    IN  Ordered(1, << >>)

\* position of the first child of e with the tag, 0 when there is none
find(e, tag) ==
    LET all == findall(e, tag) IN IF all = << >> THEN 0 ELSE all[1]

(***************************************************************************)
(* XML_to_BoundingBox (the second definition, lines 99-113, is the one in  *)
(* effect) and write_BoundingBox_to_XML                                    *)
(***************************************************************************)
IsCoordinateTag(tag) == tag \in {x_min_tag, x_max_tag, y_min_tag, y_max_tag}

\* one pass of the loop of XML_to_BoundingBox: acc is [ok, box]
ReadCoordinate(acc, coordinate) ==
    IF ~acc.ok \/ ~IsCoordinateTag(coordinate.tag) THEN acc
    ELSE LET n == int_of_text(coordinate.text)
         IN  IF ~n.ok THEN [ok |-> FALSE, box |-> acc.box]
             ELSE IF coordinate.tag = x_min_tag
                  THEN [ok |-> TRUE, box |-> [acc.box EXCEPT !.x_min = n.val]]
             ELSE IF coordinate.tag = x_max_tag
                  THEN [ok |-> TRUE, box |-> [acc.box EXCEPT !.x_max = n.val]]
             ELSE IF coordinate.tag = y_min_tag
                  THEN [ok |-> TRUE, box |-> [acc.box EXCEPT !.y_min = n.val]]
             ELSE [ok |-> TRUE, box |-> [acc.box EXCEPT !.y_max = n.val]]

\* [ok, box]: ok is FALSE when an int(coordinate.text) raises
XML_to_BoundingBox(XMLObject) ==
    LET RECURSIVE Loop(_, _)
        Loop(i, acc) ==
            IF i > Len(XMLObject.children) THEN acc
            ELSE Loop(i + 1, ReadCoordinate(acc, XMLObject.children[i]))
    IN  Loop(1, [ok |-> TRUE, box |-> DefaultBox])

\* a variant that rebuilds the four coordinate children instead of
\* overwriting the text of the ones that are there
write_BoundingBox_to_XMLRebuild(b, XMLObject) ==
    [XMLObject EXCEPT !.children =
        <<Elem(x_min_tag, str_of_int(b.x_min), << >>),
          Elem(y_min_tag, str_of_int(b.y_min), << >>),
          Elem(x_max_tag, str_of_int(b.x_max), << >>),
          Elem(y_max_tag, str_of_int(b.y_max), << >>)>>]

\* the element after the call: only the text of coordinate children changes
write_BoundingBox_to_XML(b, XMLObject) ==
    [XMLObject EXCEPT !.children =
        [i \in 1..Len(XMLObject.children) |->
            LET coordinate == XMLObject.children[i]
            IN  IF coordinate.tag = x_min_tag
                THEN [coordinate EXCEPT !.text = str_of_int(b.x_min)]
                ELSE IF coordinate.tag = x_max_tag
                THEN [coordinate EXCEPT !.text = str_of_int(b.x_max)]
                ELSE IF coordinate.tag = y_min_tag
                THEN [coordinate EXCEPT !.text = str_of_int(b.y_min)]
                ELSE IF coordinate.tag = y_max_tag
                THEN [coordinate EXCEPT !.text = str_of_int(b.y_max)]
                ELSE coordinate]]

(***************************************************************************)
(* get_XML_files                                                           *)
(***************************************************************************)
xml_suffix == <<".", "x", "m", "l">>

\* os.path.isfile: the regular files are the paths of fs
isfile(path) == path \in DOMAIN fs

\* os.listdir returns the entries in an arbitrary order
RECURSIVE Orderings(_)
Orderings(S) ==
    IF S = {} THEN {<< >>}
    ELSE UNION {{<<x>> \o t : t \in Orderings(S \ {x})} : x \in S}

listdir == Orderings(dir_contents)

\* lines 80-81, for one listing
SelectXML(listing) ==
    LET kept == SelectSeq(listing,
                    LAMBDA file : /\ isfile(join(input_directory, file))
                                  /\ endswith(file, xml_suffix))
    IN  [i \in 1..Len(kept) |-> join(input_directory, kept[i])]

(***************************************************************************)
(* scale_XML_files, one step per file read, per box and per file written   *)
(***************************************************************************)
\* an exception leaves the loop of line 133: nothing catches it
RaiseContinue ==
    /\ pc' = "next_file"
    /\ failed_at' = file_idx
    /\ file_idx' = file_idx + 1

Raise ==
    /\ pc' = "aborted"
    /\ failed_at' = file_idx
    /\ file_idx' = file_idx

\* lines 137-139: [w_ok, h_ok, width, height]; w_ok is FALSE when line 137 or
\* 138 raises, h_ok is FALSE when line 139 raises (self.width is set by then)
parse_image_size(root) ==
    LET XML_image_size == find(root, base_image_size_tag)
        size == root.children[XML_image_size]
        w == find(size, base_image_width_tag)
        h == find(size, base_image_height_tag)
        wval == int_of_text(size.children[w].text)
        hval == int_of_text(size.children[h].text)
        failed == [w_ok |-> FALSE, h_ok |-> FALSE, width |-> 0, height |-> 0]
    IN  IF XML_image_size = 0 THEN failed
        ELSE IF w = 0 THEN failed
        ELSE IF ~wval.ok THEN failed
        ELSE IF h = 0 \/ ~hval.ok
             THEN [w_ok |-> TRUE, h_ok |-> FALSE, width |-> wval.val, height |-> 0]
        ELSE [w_ok |-> TRUE, h_ok |-> TRUE, width |-> wval.val, height |-> hval.val]

\* a variant that keeps the extent once self.width and self.height are set
read_image_sizeOnce(root) ==
    IF width # 0 /\ height # 0
    THEN [w_ok |-> TRUE, h_ok |-> TRUE, width |-> width, height |-> height]
    ELSE parse_image_size(root)

\* the extent is read from every document, before its boxes are scaled
read_image_size(root) == parse_image_size(root)

(***************************************************************************)
(* The documents and directories the batch is run on                       *)
(***************************************************************************)
Leaf(tag, text) == Elem(tag, text, << >>)

Num(tag, n) == Leaf(tag, str_of_int(n))

Size(children) == Elem(base_image_size_tag, NoText, children)

\* object : {name, pose, truncated, difficult, bndbox : {...}}
Object(name, rest) ==
    Elem(XML_object_tag, NoText,
         <<Leaf("name", name), Leaf("pose", <<"U", "p">>),
           Leaf("truncated", <<"0">>), Leaf("difficult", <<"0">>)>> \o rest)

Bndbox(children) == Elem(bounding_box_tag, NoText, children)

Annotation(children) ==
    [parses |-> TRUE,
     root |-> Elem("annotation", NoText,
                   <<Leaf("folder", <<"i", "m", "g">>)>> \o children)]

CatName == <<"c", "a", "t">>
DogName == <<"d", "o", "g", " ">>

\* 20x10, two objects, the second with its coordinates in another order
DocGood ==
    Annotation(<<
        Size(<<Num("width", 20), Num("height", 10), Num("depth", 3)>>),
        Object(CatName, <<Bndbox(<<Num("xmin", 4), Num("ymin", 2),
                                   Num("xmax", 12), Num("ymax", 8)>>)>>),
        Leaf("segmented", <<"0">>),
        Object(DogName, <<Bndbox(<<Num("xmax", 20), Num("xmin", 0),
                                   Num("ymax", 10), Num("ymin", 5)>>)>>)>>)

\* 8x6, numbers written with blanks, a sign and leading zeros, a box that
\* reaches beyond the image, a child of bndbox that is no coordinate
DocSmall ==
    Annotation(<<
        Size(<<Leaf("width", <<" ", "8", "\n">>), Leaf("height", <<"0", "6">>)>>),
        Object(CatName, <<Bndbox(<<Leaf("xmin", <<"+", "2">>), Num("ymin", 1),
                                   Leaf("note", <<"x">>),
                                   Num("xmax", 30), Leaf("ymax", <<"0", "5">>)>>)>>)>>)

DocNoObjects ==
    Annotation(<<Size(<<Num("width", 5), Num("height", 4)>>)>>)

DocNoSize ==
    Annotation(<<
        Object(CatName, <<Bndbox(<<Num("xmin", 4), Num("ymin", 2),
                                   Num("xmax", 12), Num("ymax", 8)>>)>>)>>)

DocNoWidth ==
    Annotation(<<
        Size(<<Num("height", 10)>>),
        Object(CatName, <<Bndbox(<<Num("xmin", 4), Num("ymin", 2),
                                   Num("xmax", 12), Num("ymax", 8)>>)>>)>>)

DocNoHeight ==
    Annotation(<<
        Size(<<Num("width", 7)>>),
        Object(CatName, <<Bndbox(<<Num("xmin", 4), Num("ymin", 2),
                                   Num("xmax", 12), Num("ymax", 8)>>)>>)>>)

\* the bndbox has no xmax
DocMissingCoordinate ==
    Annotation(<<
        Size(<<Num("width", 20), Num("height", 10)>>),
        Object(CatName, <<Bndbox(<<Num("xmin", 10), Num("ymin", 2),
                                   Num("ymax", 8)>>)>>)>>)

\* the second object has no bndbox
DocNoBndbox ==
    Annotation(<<
        Size(<<Num("width", 20), Num("height", 10)>>),
        Object(CatName, <<Bndbox(<<Num("xmin", 4), Num("ymin", 2),
                                   Num("xmax", 12), Num("ymax", 8)>>)>>),
        Object(DogName, << >>)>>)

\* the second object has a coordinate that is no integer
DocBadNumber ==
    Annotation(<<
        Size(<<Num("width", 20), Num("height", 10)>>),
        Object(CatName, <<Bndbox(<<Num("xmin", 4), Num("ymin", 2),
                                   Num("xmax", 12), Num("ymax", 8)>>)>>),
        Object(DogName, <<Bndbox(<<Num("xmin", 1), Leaf("ymin", <<"2", ".", "5">>),
                                   Num("xmax", 3), Leaf("ymax", NoText)>>)>>)>>)

\* a file that is no XML document
NotXML == [parses |-> FALSE, root |-> Elem("", NoText, << >>)]

Docs ==
    {DocGood, DocSmall, DocNoObjects, DocNoSize, DocNoWidth, DocNoHeight,
     DocMissingCoordinate, DocNoBndbox, DocBadNumber, NotXML}

NameA == <<"a", ".", "x", "m", "l">>
NameB == <<"b", ".", "t", "x", "t">>
NameC == <<"c", ".", "X", "M", "L">>
NameD == <<"d", ".", "x", "m", "l">>
NameE == <<"e", ".", "x", "m", "l">>
NameF == <<"f", ".", "x", "m", "l">>
NameSubdir == <<"s", "u", "b", "d", "i", "r">>

\* regular files with a document drawn from Docs or from FewDocs, regular
\* files with a fixed document, directories
VariedFiles == {NameA, NameD}
FewDocs == {DocSmall, DocNoWidth}
FixedFiles == {NameB, NameC}
Directories == {NameSubdir, NameE}

DirIn == <<"i", "n">>
DirOut == <<"o", "u", "t">>

BatchFactors == {Rat(0 - 3, 2), Rat(1, 2)}

\* BoxResizer(input_dir, output_dir, scale_factor) on a directory
Init ==
    /\ pc = "start"
    /\ input_directory = DirIn
    /\ output_directory \in {DirIn, DirOut}
    /\ out_dir_exists \in {TRUE, output_directory = DirIn}
    /\ scale_factor \in BatchFactors
    /\ width = 0
    /\ height = 0
    /\ xml_files = << >>
    /\ dir_contents \in {S \in SUBSET (VariedFiles \cup {NameF} \cup FixedFiles
                                        \cup Directories) :
                            Cardinality(S) <= MaxEntries}
    /\ \E docs \in [VariedFiles -> Docs], docF \in FewDocs :
         fs = [p \in {join(DirIn, n) : n \in dir_contents \ Directories} |->
                  IF basename(p) \in VariedFiles THEN docs[basename(p)]
                  ELSE IF basename(p) = NameF THEN docF
                  ELSE DocGood]
    /\ file_idx = 0
    /\ tree = Elem("", NoText, << >>)
    /\ box_objects = << >>
    /\ obj_idx = 0
    /\ written = << >>
    /\ failed_at = 0
    /\ call_args = << >>
    /\ box = DefaultBox

\* line 131
GetXMLFiles ==
    /\ pc = "start"
    /\ \E listing \in listdir : xml_files' = SelectXML(listing)
    /\ file_idx' = 1
    /\ pc' = "next_file"
    /\ UNCHANGED <<dir_contents, fs, input_directory, output_directory,
                   out_dir_exists, scale_factor, width, height, tree,
                   box_objects, obj_idx, written, failed_at, call_args, box>>

\* lines 133-144: parse the next file, read its size, find its objects
ParseFile ==
    /\ pc = "next_file"
    /\ file_idx <= Len(xml_files)
    /\ LET content == fs[xml_files[file_idx]]
           extent == read_image_size(content.root)
       IN  IF ~content.parses
           THEN Raise /\ UNCHANGED <<width, height, tree, box_objects, obj_idx>>
           ELSE IF ~extent.w_ok
           THEN /\ Raise
                /\ tree' = content.root
                /\ UNCHANGED <<width, height, box_objects, obj_idx>>
           ELSE IF ~extent.h_ok
           THEN /\ Raise
                /\ tree' = content.root
                /\ width' = extent.width
                /\ UNCHANGED <<height, box_objects, obj_idx>>
           ELSE /\ tree' = content.root
                /\ width' = extent.width
                /\ height' = extent.height
                /\ box_objects' = findall(content.root, XML_object_tag)
                /\ obj_idx' = 1
                /\ pc' = "boxes"
                /\ UNCHANGED <<file_idx, failed_at>>
    /\ UNCHANGED <<dir_contents, fs, input_directory, output_directory,
                   out_dir_exists, scale_factor, xml_files, written,
                   call_args, box>>

\* lines 147-156: one pass of the loop over the objects
ScaleBox ==
    /\ pc = "boxes"
    /\ obj_idx <= Len(box_objects)
    /\ LET o == box_objects[obj_idx]
           b == find(tree.children[o], bounding_box_tag)
           current_box_XML == tree.children[o].children[b]
           current_box == XML_to_BoundingBox(current_box_XML)
           scaled_box == get_scaled_box(current_box.box, width, height, scale_factor)
       IN  IF b = 0
           THEN Raise /\ UNCHANGED <<tree, obj_idx, call_args, box>>
           ELSE IF ~current_box.ok
           THEN Raise /\ UNCHANGED <<tree, obj_idx, call_args, box>>
           ELSE /\ call_args' = <<current_box.box>>
                /\ box' = scaled_box
                /\ tree' = [tree EXCEPT !.children[o].children[b] =
                               write_BoundingBox_to_XML(scaled_box, current_box_XML)]
                /\ obj_idx' = obj_idx + 1
                /\ UNCHANGED <<pc, file_idx, failed_at>>
    /\ UNCHANGED <<dir_contents, fs, input_directory, output_directory,
                   out_dir_exists, scale_factor, width, height, xml_files,
                   box_objects, written>>

\* lines 161-162: write the tree under the output directory
WriteFile ==
    /\ pc = "boxes"
    /\ obj_idx > Len(box_objects)
    /\ LET out == join(output_directory, basename(xml_files[file_idx]))
       IN  IF ~out_dir_exists
           THEN Raise /\ UNCHANGED <<fs, written>>
           ELSE /\ fs' = [p \in DOMAIN fs \cup {out} |->
                            IF p = out THEN [parses |-> TRUE, root |-> tree]
                            ELSE fs[p]]
                /\ written' = Append(written, out)
                /\ file_idx' = file_idx + 1
                /\ pc' = "next_file"
                /\ UNCHANGED failed_at
    /\ UNCHANGED <<dir_contents, input_directory, output_directory,
                   out_dir_exists, scale_factor, width, height, xml_files,
                   tree, box_objects, obj_idx, call_args, box>>

\* the loop of line 133 is exhausted
Finish ==
    /\ pc = "next_file"
    /\ file_idx > Len(xml_files)
    /\ pc' = "done"
    /\ UNCHANGED <<dir_contents, fs, input_directory, output_directory,
                   out_dir_exists, scale_factor, width, height, xml_files,
                   file_idx, tree, box_objects, obj_idx, written, failed_at,
                   call_args, box>>

Next == GetXMLFiles \/ ParseFile \/ ScaleBox \/ WriteFile \/ Finish

Spec == Init /\ [][Next]_vars

(***************************************************************************)
(* What the batch claims speak of                                          *)
(***************************************************************************)
\* the input file an output path was written from
SourcePath(out) == join(input_directory, basename(out))

\* the input files remain as they were when the output goes elsewhere
SourcesKept == output_directory # input_directory

Children(e, tag) == {i \in 1..Len(e.children) : e.children[i].tag = tag}

HasChild(e, tag) == Children(e, tag) # {}

\* size, width or height is missing, or a bndbox lacks a coordinate child
Malformed(root) ==
    \/ ~HasChild(root, "size")
    \/ \E i \in Children(root, "size") :
          ~HasChild(root.children[i], "width") \/ ~HasChild(root.children[i], "height")
    \/ \E i \in Children(root, "object") :
          \E j \in Children(root.children[i], "bndbox") :
             \E tag \in {"xmin", "xmax", "ymin", "ymax"} :
                ~HasChild(root.children[i].children[j], tag)

\* the document with the text of every coordinate child of every bndbox of
\* every object blanked
Blanked(root) ==
    [root EXCEPT !.children =
        [i \in 1..Len(root.children) |->
            IF root.children[i].tag # "object" THEN root.children[i]
            ELSE [root.children[i] EXCEPT !.children =
                [j \in 1..Len(root.children[i].children) |->
                    IF root.children[i].children[j].tag # "bndbox"
                    THEN root.children[i].children[j]
                    ELSE [root.children[i].children[j] EXCEPT !.children =
                        [k \in 1..Len(root.children[i].children[j].children) |->
                            IF root.children[i].children[j].children[k].tag
                                  \in {"xmin", "xmax", "ymin", "ymax"}
                            THEN [root.children[i].children[j].children[k]
                                     EXCEPT !.text = NoText]
                            ELSE root.children[i].children[j].children[k]]]]]]]

\* width and height as the document's first size element declares them
\* (-1 where it declares none)
Declared(root, tag) ==
    LET sizes == Children(root, "size")
        first == CHOOSE i \in sizes : \A j \in sizes : i <= j
        dims == Children(root.children[first], tag)
        d == CHOOSE i \in dims : \A j \in dims : i <= j
        n == int_of_text(root.children[first].children[d].text)
    IN  IF sizes = {} THEN 0 - 1
        ELSE IF dims = {} THEN 0 - 1
        ELSE IF ~n.ok THEN 0 - 1
        ELSE n.val

(***************************************************************************)
(* C5: a malformed document (size, width or height missing, or a bndbox    *)
(* without one of xmin, xmax, ymin, ymax) is fatal: no output file is      *)
(* written for it, so no output file holds coordinates computed from the   *)
(* default 0 of a missing coordinate.                                      *)
(***************************************************************************)
C5_MalformedNeverWritten ==
    SourcesKept =>
        \A k \in 1..Len(written) : ~Malformed(fs[SourcePath(written[k])].root)

(***************************************************************************)
(* C6: processing changes only the text of the xmin, xmax, ymin and ymax   *)
(* children of the objects' bndbox elements: everything else of the        *)
(* document is the same in the tree being processed and in every output    *)
(* file as in the input file, and no element is added, removed or replaced *)
(***************************************************************************)
C6_OnlyCoordinateTextChanges ==
    /\ pc = "boxes" =>
          Blanked(tree) = Blanked(fs[xml_files[file_idx]].root)
    /\ SourcesKept =>
          \A k \in 1..Len(written) :
             /\ written[k] \in DOMAIN fs
             /\ Blanked(fs[written[k]].root) = Blanked(fs[SourcePath(written[k])].root)

\* an output file that differs from its input, for the document whose
\* bndbox has a child that is no coordinate
C6_Witness ==
    /\ SourcesKept
    /\ Len(written) >= 1
    /\ fs[SourcePath(written[1])] = DocSmall
    /\ fs[written[1]] # DocSmall

(***************************************************************************)
(* C7: when the batch fails on the k-th document, the outputs of the k-1   *)
(* documents before it have been written and are in place, nothing is      *)
(* written for the k-th document or any later one, and the batch has ended *)
(***************************************************************************)
C7_HaltOnFirstError ==
    failed_at # 0 =>
        /\ pc = "aborted"
        /\ file_idx = failed_at
        /\ Len(written) = failed_at - 1
        /\ \A k \in 1..Len(written) :
              /\ written[k] = join(output_directory, basename(xml_files[k]))
              /\ written[k] \in DOMAIN fs
              /\ fs[written[k]].parses
        /\ \A k \in failed_at..Len(xml_files) :
              SourcesKept => join(output_directory, basename(xml_files[k])) \notin DOMAIN fs

\* the second of three documents failed after the first was written
C7_Witness ==
    /\ failed_at = 2
    /\ Len(xml_files) = 3
    /\ written = <<join(output_directory, basename(xml_files[1]))>>

(***************************************************************************)
(* C8: get_XML_files selects exactly the entries of the input directory    *)
(* that are regular files with a name ending in ".xml" (lower case), each  *)
(* once, as the input directory joined with the name; of a.xml, b.txt,     *)
(* c.XML and subdir/ only a.xml is selected.                               *)
(***************************************************************************)
EndsInDotXml(n) ==
    /\ Len(n) >= 4
    /\ n[Len(n) - 3] = "." /\ n[Len(n) - 2] = "x"
    /\ n[Len(n) - 1] = "m" /\ n[Len(n)] = "l"

C8_SelectsXmlFiles ==
    pc # "start" =>
        /\ {xml_files[i] : i \in 1..Len(xml_files)} =
              {DirIn \o <<"/">> \o n : n \in {e \in dir_contents \ Directories : EndsInDotXml(e)}}
        /\ \A i, j \in 1..Len(xml_files) : xml_files[i] = xml_files[j] => i = j
        /\ dir_contents = {NameA, NameB, NameC, NameSubdir} =>
              xml_files = <<<<"i", "n", "/", "a", ".", "x", "m", "l">>>>

\* the directory of the example has been listed
C8_Witness ==
    /\ pc # "start"
    /\ dir_contents = {NameA, NameB, NameC, NameSubdir}
    /\ xml_files = <<<<"i", "n", "/", "a", ".", "x", "m", "l">>>>

(***************************************************************************)
(* C10: while the boxes of a document are scaled, self.width and           *)
(* self.height are the width and height that document declares, whatever   *)
(* was processed before, and every scaled box is clamped against them.     *)
(***************************************************************************)
C10_OwnExtent ==
    pc = "boxes" =>
        /\ width = Declared(fs[xml_files[file_idx]].root, "width")
        /\ height = Declared(fs[xml_files[file_idx]].root, "height")
        /\ obj_idx > 1 =>
              /\ box.x_max <= Declared(fs[xml_files[file_idx]].root, "width")
              /\ box.y_max <= Declared(fs[xml_files[file_idx]].root, "height")

\* a box of a later document, clamped at the width of its own document,
\* after a document with another width
C10_Witness ==
    /\ pc = "boxes"
    /\ file_idx >= 2
    /\ obj_idx > 1
    /\ Declared(fs[xml_files[file_idx - 1]].root, "width") > 0
    /\ Declared(fs[xml_files[file_idx - 1]].root, "width") # width
    /\ call_args[1].x_max > width
    /\ box.x_max = width

(***************************************************************************)
(* get_scaled_box on its own: a BoxResizer whose width, height and         *)
(* scale_factor are set, called repeatedly on one box (the box is mutated  *)
(* in place and returned, so the result of a call is the next argument).   *)
(***************************************************************************)
Factors ==
    {Rat(0 - 4, 1), Rat(0 - 3, 2), Rat(0 - 1, 1), Rat(0 - 1, 2),
     Rat(0, 1), Rat(1, 2), Rat(1, 1)}

XCoords == (0 - NegCoord)..MaxCoord
YCoords == (0 - NegCoord)..MaxCoordY

GridInputs ==
    [b : [x_min : XCoords, x_max : XCoords, y_min : YCoords, y_max : YCoords],
     w : 0..MaxExtent, h : 0..MaxCoordY, f : Factors]

\* the two worked examples
ExampleInputs ==
    {[b |-> BoundingBox(100, 200, 50, 150), w |-> 1000, h |-> 1000, f |-> Rat(1, 2)],
     [b |-> BoundingBox(0, 10, 0, 10), w |-> 5, h |-> 100, f |-> Rat(1, 1)]}

\* the batch driver's state while only get_scaled_box is exercised
BatchIdle ==
    /\ dir_contents = {}
    /\ fs = << >>
    /\ input_directory = << >>
    /\ output_directory = << >>
    /\ out_dir_exists = TRUE
    /\ xml_files = << >>
    /\ file_idx = 0
    /\ tree = Elem("", NoText, << >>)
    /\ box_objects = << >>
    /\ obj_idx = 0
    /\ written = << >>
    /\ failed_at = 0

ScaleInit ==
    /\ pc = "scale"
    /\ BatchIdle
    /\ \E i \in GridInputs \cup ExampleInputs :
         /\ box = i.b
         /\ width = i.w
         /\ height = i.h
         /\ scale_factor = i.f
    /\ call_args = << >>

ScaleCall ==
    /\ pc = "scale"
    /\ Len(call_args) < MaxCalls
    /\ call_args' = Append(call_args, box)
    /\ box' = get_scaled_box(box, width, height, scale_factor)
    /\ UNCHANGED <<pc, dir_contents, fs, input_directory, output_directory,
                   out_dir_exists, scale_factor, width, height, xml_files,
                   file_idx, tree, box_objects, obj_idx, written, failed_at>>

ScaleNext == ScaleCall

SpecScale == ScaleInit /\ [][ScaleNext]_vars

\* the argument of the last call, and whether a box is well formed
Called == Len(call_args) >= 1
LastArg == call_args[Len(call_args)]
WellFormed(b) == b.x_min <= b.x_max /\ b.y_min <= b.y_max

C2_EachCoordinateInRange ==
    (Called /\ WellFormed(LastArg) /\ width >= 0 /\ height >= 0) =>
        /\ 0 <= box.x_min /\ box.x_min <= width
        /\ 0 <= box.y_min /\ box.y_min <= height
        /\ box.x_max <= width
        /\ box.y_max <= height

(***************************************************************************)
(* C3: get_scaled_box returns the reference result: with                   *)
(* dx = ((x_max - x_min)/2) * factor truncated toward zero and dy alike,   *)
(* x_min' = max(0, x_min - dx), x_max' = min(width, x_max + dx),           *)
(* y_min' = max(0, y_min - dy), y_max' = min(height, y_max + dy); box      *)
(* (100, 200, 50, 150) in 1000x1000 with factor 0.5 gives                  *)
(* (75, 225, 25, 175), and box (0, 10, 0, 10) in width 5 with factor 1.0   *)
(* gives x_max' = 5.                                                       *)
(***************************************************************************)
Abs(n) == IF n < 0 THEN 0 - n ELSE n

\* the integer q of the same sign as n/d with |q| <= |n/d| < |q| + 1 (d > 0)
TruncatedQuotient(n, d) ==
    CHOOSE q \in (0 - Abs(n))..Abs(n) :
        /\ Abs(q) * d <= Abs(n)
        /\ (Abs(q) + 1) * d > Abs(n)
        /\ q * n >= 0

RefDelta(lo, hi, f) == TruncatedQuotient((hi - lo) * f.num, 2 * f.den)

RefLow(lo, hi, f) ==
    IF lo - RefDelta(lo, hi, f) < 0 THEN 0 ELSE lo - RefDelta(lo, hi, f)

RefHigh(lo, hi, f, limit) ==
    IF hi + RefDelta(lo, hi, f) > limit THEN limit ELSE hi + RefDelta(lo, hi, f)

C3_ReferenceResult ==
    Called =>
        /\ box.x_min = RefLow(LastArg.x_min, LastArg.x_max, scale_factor)
        /\ box.x_max = RefHigh(LastArg.x_min, LastArg.x_max, scale_factor, width)
        /\ box.y_min = RefLow(LastArg.y_min, LastArg.y_max, scale_factor)
        /\ box.y_max = RefHigh(LastArg.y_min, LastArg.y_max, scale_factor, height)
        /\ (/\ LastArg = BoundingBox(100, 200, 50, 150)
            /\ width = 1000 /\ height = 1000
            /\ scale_factor = Rat(1, 2)) => box = BoundingBox(75, 225, 25, 175)
        /\ (/\ LastArg = BoundingBox(0, 10, 0, 10)
            /\ width = 5
            /\ scale_factor = Rat(1, 1)) => box.x_max = 5

\* the first worked example has been scaled
C3_Witness ==
    /\ Len(call_args) = 1
    /\ call_args[1] = BoundingBox(100, 200, 50, 150)
    /\ width = 1000 /\ height = 1000 /\ scale_factor = Rat(1, 2)
    /\ box = BoundingBox(75, 225, 25, 175)

(***************************************************************************)
(* C4: with factor 0, scaling a well-formed box twice gives the same box   *)
(* as scaling it once.                                                     *)
(***************************************************************************)
C4_ZeroFactorIdempotent ==
    (/\ Len(call_args) >= 2
     /\ scale_factor.num = 0
     /\ WellFormed(call_args[1])) => box = LastArg

\* a well-formed box that the first call with factor 0 changed (clamped),
\* scaled a second time
C4_Witness ==
    /\ Len(call_args) = 2
    /\ scale_factor.num = 0
    /\ WellFormed(call_args[1])
    /\ call_args[2] # call_args[1]
    /\ box = call_args[2]

(***************************************************************************)
(* C9: the clamp is unconditional and an inverted result is not corrected: *)
(* whenever the scaled, unclamped box is out of order (x_min - dx >        *)
(* x_max + dx) the returned box has x_min' > x_max', each still the        *)
(* clamped value of its own side, and likewise for y; this happens for     *)
(* well-formed boxes, such as one touching the border (x_min = 0) scaled   *)
(* by a factor below -1.                                                   *)
(***************************************************************************)
C9_InversionKept ==
    Called =>
        LET dx == RefDelta(LastArg.x_min, LastArg.x_max, scale_factor)
            dy == RefDelta(LastArg.y_min, LastArg.y_max, scale_factor)
        IN  /\ (LastArg.x_min - dx > LastArg.x_max + dx) =>
                  /\ box.x_min > box.x_max
                  /\ box.x_min >= LastArg.x_min - dx
                  /\ box.x_max <= LastArg.x_max + dx
            /\ (LastArg.y_min - dy > LastArg.y_max + dy) =>
                  /\ box.y_min > box.y_max
                  /\ box.y_min >= LastArg.y_min - dy
                  /\ box.y_max <= LastArg.y_max + dy

\* a well-formed box inside the extent, touching the border, scaled by a
\* factor below -1, returned out of order
C9_Witness ==
    /\ Len(call_args) = 1
    /\ WellFormed(call_args[1])
    /\ call_args[1].x_min = 0
    /\ call_args[1].x_max <= width
    /\ scale_factor.num < 0 - scale_factor.den
    /\ box.x_min > box.x_max

====
